---- MODULE Spec2Model ----
(***************************************************************************)
(* Model of the Pratt (top-down operator precedence) parser of tdop.py    *)
(* and of the shell/C arithmetic grammar of arith_parse.py.               *)
(*                                                                         *)
(* The operator table (ParserSpec) is a pair of dictionaries, modelled as *)
(* functions whose DOMAIN is the set of registered token kinds.  The      *)
(* recursive-descent parser is modelled with an explicit call stack: one   *)
(* frame per active Python call, one action per straight-line segment of  *)
(* a function between two calls of ParseUntil.  The lexer is a generator:  *)
(* every Parser.Next() draws the next token (or end of input) from the     *)
(* alphabet of the source text being parsed.                               *)
(***************************************************************************)
EXTENDS Integers, Sequences, FiniteSets, TLC

VARIABLES
  null_lookup,  \* ParserSpec.null_lookup : kind -> NullInfo
  left_lookup,  \* ParserSpec.left_lookup : kind -> LeftInfo
  nregs,        \* number of registration calls made on the ParserSpec
  source,       \* the class of source text: [alphabet, budget]
  hist,         \* the tokens the lexer has yielded so far, in order
  lexer,        \* "open" | "exhausted" (the generator raised StopIteration)
  cursor,       \* how many times lexer.__next__() has been called
  token,        \* Parser.token, the one token of lookahead
  stack,        \* the Python call stack, innermost call last
  ret,          \* the value returned by the call that returned last
  status,       \* "idle" | "running" | "done" | "error"
  err           \* the ParseError raised, or NoError

vars == <<null_lookup, left_lookup, nregs, source, hist, lexer, cursor, token,
          stack, ret, status, err>>

tableVars == <<null_lookup, left_lookup, nregs>>
parseVars == <<source, hist, lexer, cursor, token, stack, ret, status, err>>

-----------------------------------------------------------------------------
(* Bounds of the model *)

\* longest token stream of the general specification
MaxTokens == 5
\* longest token stream of the binary-operator specification
MaxTokensBin == 5
\* longest token stream of the call/index/comma specification
MaxTokensCall == 9
\* longest token stream of the ternary specification
MaxTokensTernary == 9
\* number of registration calls in the table specification
MaxRegs == 3

-----------------------------------------------------------------------------
(* tdop.py: errors, tokens, nodes *)

\* ParseError(msg % arg)
ParseError(msg, arg) == [msg |-> msg, arg |-> arg]

NoError == ParseError("none", "")

\* the ParseError messages, by the place that raises them
ErrPrefix == "can't be used in prefix position"
ErrInfix == "can't be used in infix position"
ErrUnexpectedToken == "Unexpected token"
ErrEndOfInput == "Unexpected end of input"
ErrExpected == "expected"
ErrAssign == "Can't assign to"
ErrIndex == "can't be indexed"
ErrCall == "can't be called"

\* Token(type, val); id is the object's identity (its place in the stream)
Token(type, val, id) == [type |-> type, val |-> val, id |-> id]

NoToken == Token("None", "None", 0)

EOF_TOKEN == Token("eof", "eof", 0)

\* Tokenize: the value of a token of a kind; a number's is its digits, a
\* name's its word, an operator's its own text
TokenVal(kind) ==
  IF kind = "number" THEN "1" ELSE IF kind = "name" THEN "x" ELSE kind

\* Node(token): a leaf
Node(tok) == [token |-> tok, children |-> <<>>, composite |-> FALSE]

\* CompositeNode(token, children)
CompositeNode(tok, children) ==
  [token |-> tok, children |-> children, composite |-> TRUE]

NoNode == Node(NoToken)

\* token.type = kind, the in-place relabelling of a token
Relabel(tok, kind) == [tok EXCEPT !.type = kind]

\* Node.__repr__ and CompositeNode.__repr__
RECURSIVE Repr(_)
RECURSIVE ReprArgs(_)
ReprArgs(children) ==
  IF children = <<>> THEN ""
  ELSE " " \o Repr(Head(children)) \o ReprArgs(Tail(children))
Repr(node) ==
  IF node.composite
    THEN "(" \o node.token.type \o ReprArgs(node.children) \o ")"
    ELSE node.token.val

-----------------------------------------------------------------------------
(* tdop.py: ParserSpec *)

\* LeftInfo(led, lbp, rbp); the default led is LeftError
LeftInfo(led, lbp, rbp) ==
  [led |-> IF led = "None" THEN "LeftError" ELSE led, lbp |-> lbp, rbp |-> rbp]

\* NullInfo(nud, bp); the default nud is NullError
NullInfo(nud, bp) ==
  [nud |-> IF nud = "None" THEN "NullError" ELSE nud, bp |-> bp]

\* ParserSpec(): two empty dictionaries
EmptySpec == [null_lookup |-> <<>>, left_lookup |-> <<>>]

\* d[k] = v on a dictionary
Put(d, k, v) == (k :> v) @@ d

\* Null without `if token not in self.left_lookup: ... LeftInfo()`
RECURSIVE Null_noLeftDefault(_, _, _, _)
Null_noLeftDefault(spec, bp, nud, tokens) ==
  IF tokens = <<>> THEN spec
  ELSE Null_noLeftDefault(
         [null_lookup |-> Put(spec.null_lookup, Head(tokens), NullInfo(nud, bp)),
          left_lookup |-> spec.left_lookup],
         bp, nud, Tail(tokens))

\* ParserSpec.Null(bp, nud, tokens)
RECURSIVE Null(_, _, _, _)
Null(spec, bp, nud, tokens) ==
  IF tokens = <<>> THEN spec
  ELSE LET tk == Head(tokens)
           nl == Put(spec.null_lookup, tk, NullInfo(nud, bp))
           ll == IF tk \notin DOMAIN spec.left_lookup
                   THEN Put(spec.left_lookup, tk, LeftInfo("None", 0, 0))
                   ELSE spec.left_lookup
       IN  Null([null_lookup |-> nl, left_lookup |-> ll], bp, nud, Tail(tokens))

\* ParserSpec._RegisterLed(lbp, rbp, led, tokens)
RECURSIVE RegisterLed(_, _, _, _, _)
RegisterLed(spec, lbp, rbp, led, tokens) ==
  IF tokens = <<>> THEN spec
  ELSE LET tk == Head(tokens)
           nl == IF tk \notin DOMAIN spec.null_lookup
                   THEN Put(spec.null_lookup, tk, NullInfo("NullError", 0))
                   ELSE spec.null_lookup
           ll == Put(spec.left_lookup, tk, LeftInfo(led, lbp, rbp))
       IN  RegisterLed([null_lookup |-> nl, left_lookup |-> ll],
                       lbp, rbp, led, Tail(tokens))

\* ParserSpec.Left(bp, led, tokens)
Left(spec, bp, led, tokens) == RegisterLed(spec, bp, bp, led, tokens)

\* LeftRightAssoc passing rbp = bp, as Left does
LeftRightAssoc_asLeft(spec, bp, led, tokens) ==
  RegisterLed(spec, bp, bp, led, tokens)

\* ParserSpec.LeftRightAssoc(bp, led, tokens)
LeftRightAssoc(spec, bp, led, tokens) == RegisterLed(spec, bp, bp - 1, led, tokens)

\* the result of a lookup: the row found, or the ParseError raised
Found(info) == [error |-> NoError, info |-> info]
LookupFailed(kind) ==
  [error |-> ParseError(ErrUnexpectedToken, kind), info |-> NoError]

\* ParserSpec.LookupNull(token)
LookupNull(nl, kind) ==
  IF kind \in DOMAIN nl THEN Found(nl[kind]) ELSE LookupFailed(kind)

\* LookupLeft raising the error of the infix position for a missing key
LookupLeft_positional(ll, kind) ==
  IF kind \in DOMAIN ll THEN Found(ll[kind])
  ELSE [error |-> ParseError(ErrInfix, kind), info |-> NoError]

\* ParserSpec.LookupLeft(token)
LookupLeft(ll, kind) ==
  IF kind \in DOMAIN ll THEN Found(ll[kind]) ELSE LookupFailed(kind)

-----------------------------------------------------------------------------
(* arith_parse.py: the grammar *)

COMMA_PREC == 1

IncDecOps == <<"++", "--">>
PrefixOps == <<"+", "!", "~", "-">>
AssignOps == <<"=", "+=", "-=", "*=", "/=", "%=", "<<=", ">>=", "&=", "^=", "|=">>

\* MakeShellParserSpec(): the registrations, in the order of the source
MakeShellParserSpec ==
  LET s1  == Left(EmptySpec, 31, "LeftIncDec", IncDecOps)
      s2  == Left(s1, 31, "LeftFuncCall", <<"(">>)
      s3  == Left(s2, 31, "LeftIndex", <<"[">>)
      s4  == Null(s3, 29, "NullIncDec", IncDecOps)
      s5  == Null(s4, 29, "NullPrefixOp", PrefixOps)
      s6  == LeftRightAssoc(s5, 27, "LeftBinaryOp", <<"**">>)
      s7  == Left(s6, 25, "LeftBinaryOp", <<"*", "/", "%">>)
      s8  == Left(s7, 23, "LeftBinaryOp", <<"+", "-">>)
      s9  == Left(s8, 21, "LeftBinaryOp", <<"<<", ">>">>)
      s10 == Left(s9, 19, "LeftBinaryOp", <<"<", ">", "<=", ">=">>)
      s11 == Left(s10, 17, "LeftBinaryOp", <<"!=", "==">>)
      s12 == Left(s11, 15, "LeftBinaryOp", <<"&">>)
      s13 == Left(s12, 13, "LeftBinaryOp", <<"^">>)
      s14 == Left(s13, 11, "LeftBinaryOp", <<"|">>)
      s15 == Left(s14, 9, "LeftBinaryOp", <<"&&">>)
      s16 == Left(s15, 7, "LeftBinaryOp", <<"||">>)
      s17 == LeftRightAssoc(s16, 5, "LeftTernary", <<"?">>)
      s18 == LeftRightAssoc(s17, 3, "LeftAssign", AssignOps)
      s19 == Left(s18, COMMA_PREC, "LeftComma", <<",">>)
      s20 == Null(s19, 0, "NullParen", <<"(">>)
      s21 == Null(s20, -1, "NullConstant", <<"name", "number">>)
      s22 == Null(s21, -1, "NullError", <<")", "]", ":", "eof">>)
  IN  s22

\* the operand check letting a number through
AssignableKinds_withNumber == {"name", "get", "number"}

\* the kinds NullIncDec, LeftIncDec and LeftAssign accept as their operand
AssignableKinds == {"name", "get"}

\* the index check letting the result of a call through
IndexableKinds_withCall == {"name", "get", "call"}

\* the kinds LeftIndex accepts on its left
IndexableKinds == {"name", "get"}

\* the kinds LeftFuncCall accepts on its left
CallableKinds == {"name", "get"}

-----------------------------------------------------------------------------
(* tdop.py: Parser *)

\* a frame of the call stack: the function, where it is, its arguments and
\* its locals
Frame(fn, pc, bp, tok, left) ==
  [fn |-> fn, pc |-> pc, bp |-> bp, token |-> tok, left |-> left,
   r |-> NoNode, children |-> <<>>]

Top == stack[Len(stack)]
Callers == SubSeq(stack, 1, Len(stack) - 1)
Running(fn, pc) ==
  /\ status = "running"
  /\ stack # <<>>
  /\ Top.fn = fn
  /\ Top.pc = pc

\* Parser.AtToken(token_type)
AtToken(kind) == token.type = kind

\* what lexer.__next__() can give: a token of the source's alphabet, or
\* StopIteration, which Parser.Next turns into EOF_TOKEN
LexerOutcomes ==
  IF lexer = "open" /\ Len(hist) < source.budget
    THEN {Token(k, TokenVal(k), Len(hist) + 1) : k \in source.alphabet}
           \cup {EOF_TOKEN}
    ELSE {EOF_TOKEN}

\* Parser.Next(): t is what the lexer gave
ParserNext(t) ==
  /\ token' = t
  /\ hist' = IF t = EOF_TOKEN THEN hist ELSE Append(hist, t)
  /\ lexer' = IF t = EOF_TOKEN THEN "exhausted" ELSE lexer
  /\ cursor' = cursor + 1

NoNext == UNCHANGED <<token, hist, lexer, cursor>>

\* raise ParseError(e): the exception unwinds every frame
Raise(e) ==
  /\ status' = "error"
  /\ err' = e
  /\ stack' = <<>>
  /\ ret' = NoNode

\* return v: the frame is popped and the caller resumes
Return(v) ==
  /\ stack' = Callers
  /\ ret' = v
  /\ UNCHANGED <<status, err>>

\* a call: the caller's frame is kept as `caller`, the callee's is pushed
Call(caller, callee) ==
  /\ stack' = Callers \o <<caller, callee>>
  /\ UNCHANGED <<ret, status, err>>

\* the caller's frame at its next segment
At(pc) == [Top EXCEPT !.pc = pc]

\* the frame of a call of ParseUntil(rbp)
ParseUntilFrame(rbp) == Frame("ParseUntil", "entry", rbp, NoToken, NoNode)

\* Parser.Parse(): prime the lookahead, call ParseUntil(0)
Parse ==
  /\ status = "idle"
  /\ \E t \in LexerOutcomes : ParserNext(t)
  /\ status' = "running"
  /\ stack' = <<Frame("Parse", "ret", 0, NoToken, NoNode), ParseUntilFrame(0)>>
  /\ UNCHANGED <<ret, err, source, tableVars>>

\* Parser.Parse(): return what ParseUntil(0) returned
ParseReturn ==
  /\ Running("Parse", "ret")
  /\ status' = "done"
  /\ stack' = <<>>
  /\ NoNext
  /\ UNCHANGED <<ret, err, source, tableVars>>

\* Parser.ParseUntil(rbp), up to the call of the nud
ParseUntilNull ==
  /\ Running("ParseUntil", "entry")
  /\ IF AtToken("eof")
       THEN Raise(ParseError(ErrEndOfInput, "")) /\ NoNext
       ELSE \E t \in LexerOutcomes :
              /\ ParserNext(t)
              /\ LET found == LookupNull(null_lookup, token.type)
                 IN  IF found.error # NoError
                       THEN Raise(found.error)
                       ELSE Call(At("loop"), Frame(found.info.nud, "entry",
                                               found.info.bp, token, NoNode))
  /\ UNCHANGED <<source, tableVars>>

\* the test of the loop of ParseUntil: stop when rbp >= lbp
LoopBreaks(rbp, lbp) == rbp >= lbp

\* Parser.ParseUntil(rbp), one turn of the loop: node is what the nud or the
\* last led returned
ParseUntilLeft ==
  /\ Running("ParseUntil", "loop")
  /\ LET node == ret
         t == token
         found == LookupLeft(left_lookup, t.type)
     IN  IF found.error # NoError
           THEN Raise(found.error) /\ NoNext
           ELSE IF LoopBreaks(Top.bp, found.info.lbp)
             THEN Return(node) /\ NoNext
             ELSE \E nt \in LexerOutcomes :
                    /\ ParserNext(nt)
                    /\ Call(At("loop"), Frame(found.info.led, "entry",
                                          found.info.rbp, t, node))
  /\ UNCHANGED <<source, tableVars>>

\* Eat without the test of the current token
EatThen_unchecked(val, then) ==
  (\E t \in LexerOutcomes : ParserNext(t)) /\ then

\* Parser.Eat(val) and what follows it in the caller
EatThen(val, then) ==
  IF ~AtToken(val)
    THEN Raise(ParseError(ErrExpected, val)) /\ NoNext
    ELSE (\E t \in LexerOutcomes : ParserNext(t)) /\ then

-----------------------------------------------------------------------------
(* arith_parse.py: null denotations *)

\* NullConstant(p, token, bp)
NullConstant ==
  /\ Running("NullConstant", "entry")
  /\ Return(Node(Top.token))
  /\ NoNext
  /\ UNCHANGED <<source, tableVars>>

\* tdop.NullError(p, token, bp)
NullError ==
  /\ Running("NullError", "entry")
  /\ Raise(ParseError(ErrPrefix, Top.token.type))
  /\ NoNext
  /\ UNCHANGED <<source, tableVars>>

\* NullParen(p, token, bp)
NullParen ==
  /\ \/ /\ Running("NullParen", "entry")
        /\ Call(At("r"), ParseUntilFrame(Top.bp))
        /\ NoNext
     \/ /\ Running("NullParen", "r")
        /\ EatThen(")", Return(ret))
  /\ UNCHANGED <<source, tableVars>>

\* NullPrefixOp(p, token, bp)
NullPrefixOp ==
  /\ \/ /\ Running("NullPrefixOp", "entry")
        /\ Call(At("r"), ParseUntilFrame(Top.bp))
     \/ /\ Running("NullPrefixOp", "r")
        /\ Return(CompositeNode(Top.token, <<ret>>))
  /\ NoNext
  /\ UNCHANGED <<source, tableVars>>

\* NullIncDec(p, token, bp)
NullIncDec ==
  /\ \/ /\ Running("NullIncDec", "entry")
        /\ Call(At("right"), ParseUntilFrame(Top.bp))
     \/ /\ Running("NullIncDec", "right")
        /\ LET right == ret
           IN  IF right.token.type \notin AssignableKinds
                 THEN Raise(ParseError(ErrAssign, right.token.type))
                 ELSE Return(CompositeNode(Top.token, <<right>>))
  /\ NoNext
  /\ UNCHANGED <<source, tableVars>>

-----------------------------------------------------------------------------
(* arith_parse.py: left denotations *)

\* tdop.LeftError(p, token, left, rbp). It is the led of the rows that Null
\* adds, whose lbp is 0; no call of ParseUntil in the grammar passes an rbp
\* below 0, so the loop of ParseUntil stops before it would call it, and the
\* next-state relations leave it out.
LeftError ==
  /\ Running("LeftError", "entry")
  /\ Raise(ParseError(ErrInfix, Top.token.type))
  /\ NoNext
  /\ UNCHANGED <<source, tableVars>>

\* LeftIncDec(p, token, left, rbp)
LeftIncDec ==
  /\ Running("LeftIncDec", "entry")
  /\ IF Top.left.token.type \notin AssignableKinds
       THEN Raise(ParseError(ErrAssign, Top.left.token.type))
       ELSE Return(CompositeNode(Relabel(Top.token, "post" \o Top.token.type),
                                 <<Top.left>>))
  /\ NoNext
  /\ UNCHANGED <<source, tableVars>>

\* LeftIndex(p, token, left, unused_bp)
LeftIndex ==
  /\ \/ /\ Running("LeftIndex", "entry")
        /\ IF Top.left.token.type \notin IndexableKinds
             THEN Raise(ParseError(ErrIndex, Top.left.token.type))
             ELSE Call(At("index"), ParseUntilFrame(0))
        /\ NoNext
     \/ /\ Running("LeftIndex", "index")
        /\ EatThen("]", Return(CompositeNode(Relabel(Top.token, "get"),
                                             <<Top.left, ret>>)))
  /\ UNCHANGED <<source, tableVars>>

\* the middle of a conditional parsed at the conditional's own rbp
TernaryMiddleBp_own(bp) == bp

\* LeftTernary: true_expr = p.ParseUntil(0), whatever bp is
TernaryMiddleBp(bp) == 0

\* LeftTernary(p, token, left, bp)
LeftTernary ==
  /\ \/ /\ Running("LeftTernary", "entry")
        /\ Call(At("true_expr"), ParseUntilFrame(TernaryMiddleBp(Top.bp)))
        /\ NoNext
     \/ /\ Running("LeftTernary", "true_expr")
        /\ EatThen(":", Call([Top EXCEPT !.pc = "false_expr", !.r = ret],
                             ParseUntilFrame(Top.bp)))
     \/ /\ Running("LeftTernary", "false_expr")
        /\ Return(CompositeNode(Top.token, <<Top.left, Top.r, ret>>))
        /\ NoNext
  /\ UNCHANGED <<source, tableVars>>

\* LeftBinaryOp(p, token, left, rbp)
LeftBinaryOp ==
  /\ \/ /\ Running("LeftBinaryOp", "entry")
        /\ Call(At("r"), ParseUntilFrame(Top.bp))
     \/ /\ Running("LeftBinaryOp", "r")
        /\ Return(CompositeNode(Top.token, <<Top.left, ret>>))
  /\ NoNext
  /\ UNCHANGED <<source, tableVars>>

\* LeftAssign(p, token, left, rbp)
LeftAssign ==
  /\ \/ /\ Running("LeftAssign", "entry")
        /\ IF Top.left.token.type \notin AssignableKinds
             THEN Raise(ParseError(ErrAssign, Top.left.token.type))
             ELSE Call(At("r"), ParseUntilFrame(Top.bp))
     \/ /\ Running("LeftAssign", "r")
        /\ Return(CompositeNode(Top.token, <<Top.left, ret>>))
  /\ NoNext
  /\ UNCHANGED <<source, tableVars>>

\* LeftComma always making a new node of two children
CommaNode_nested(tok, left, r) == CompositeNode(tok, <<left, r>>)

\* LeftComma, after r = p.ParseUntil(rbp): append to a comma node on the
\* left, or make a new node of two children
CommaNode(tok, left, r) ==
  IF left.token.type = ","
    THEN [left EXCEPT !.children = Append(left.children, r)]
    ELSE CompositeNode(tok, <<left, r>>)

\* LeftComma(p, token, left, rbp)
LeftComma ==
  /\ \/ /\ Running("LeftComma", "entry")
        /\ Call(At("r"), ParseUntilFrame(Top.bp))
     \/ /\ Running("LeftComma", "r")
        /\ Return(CommaNode(Top.token, Top.left, ret))
  /\ NoNext
  /\ UNCHANGED <<source, tableVars>>

\* LeftFuncCall: children + (comma_list.children if it is a comma node
\* else [comma_list])
CallChildren(children, comma_list) ==
  children \o (IF comma_list.token.type = ","
                 THEN comma_list.children ELSE <<comma_list>>)

\* LeftFuncCall: the test of the while loop with the children so far, the
\* call of ParseUntil(0) in its body, and what follows the loop
FuncCallLoop(children) ==
  IF ~AtToken(")")
    THEN /\ Call([Top EXCEPT !.pc = "comma_list", !.children = children],
                 ParseUntilFrame(0))
         /\ NoNext
    ELSE EatThen(")", Return(CompositeNode(Relabel(Top.token, "call"), children)))

\* LeftFuncCall(p, token, left, unused_bp)
LeftFuncCall ==
  /\ \/ /\ Running("LeftFuncCall", "entry")
        /\ IF Top.left.token.type \notin CallableKinds
             THEN Raise(ParseError(ErrCall, Top.left.token.type)) /\ NoNext
             ELSE FuncCallLoop(<<Top.left>>)
     \/ /\ Running("LeftFuncCall", "comma_list")
        /\ FuncCallLoop(CallChildren(Top.children, ret))
  /\ UNCHANGED <<source, tableVars>>

-----------------------------------------------------------------------------
(* The parser on the arithmetic grammar *)

\* MakeParser(s): the table of MakeShellParserSpec, a fresh Parser on the
\* lexer of a source text over `alphabet` of at most `budget` tokens
MakeParser(alphabet, budget) ==
  /\ null_lookup = MakeShellParserSpec.null_lookup
  /\ left_lookup = MakeShellParserSpec.left_lookup
  /\ nregs = 22
  /\ source = [alphabet |-> alphabet, budget |-> budget]
  /\ hist = <<>>
  /\ lexer = "open"
  /\ cursor = 0
  /\ token = NoToken
  /\ stack = <<>>
  /\ ret = NoNode
  /\ status = "idle"
  /\ err = NoError

\* the kinds registered with LeftBinaryOp
BinaryOps ==
  {"**", "*", "/", "%", "+", "-", "<<", ">>", "<", ">", "<=", ">=", "!=", "==",
   "&", "^", "|", "&&", "||"}

\* token kinds of mixed source texts; ":=" is a token the lexer produces and
\* the grammar does not register
Alphabet ==
  {"name", "number", "(", ")", "[", "]", ",", "?", ":", "=", "+", "**",
   "++", ":="}

\* token kinds of source texts of binary operators and assignment
AlphabetBin == {"name", "="} \cup BinaryOps

\* token kinds of source texts of calls, indexing and comma lists
AlphabetCall == {"name", "number", "(", ")", "[", "]", ","}

\* token kinds of source texts of conditional expressions
AlphabetTernary == {"name", "?", ":", "+", "=", ","}

\* the source texts parsed: every token stream over one of the alphabets,
\* up to its length bound
Sources ==
  { [alphabet |-> Alphabet, budget |-> MaxTokens],
    [alphabet |-> AlphabetBin, budget |-> MaxTokensBin],
    [alphabet |-> AlphabetCall, budget |-> MaxTokensCall],
    [alphabet |-> AlphabetTernary, budget |-> MaxTokensTernary] }

Init == \E src \in Sources : MakeParser(src.alphabet, src.budget)

Next ==
  \/ Parse
  \/ ParseReturn
  \/ ParseUntilNull
  \/ ParseUntilLeft
  \/ NullConstant
  \/ NullError
  \/ NullParen
  \/ NullPrefixOp
  \/ NullIncDec
  \/ LeftIncDec
  \/ LeftIndex
  \/ LeftTernary
  \/ LeftBinaryOp
  \/ LeftAssign
  \/ LeftComma
  \/ LeftFuncCall

Spec == Init /\ [][Next]_vars

\* the parses of the mixed source texts, run to their end: the interpreter
\* takes a step whenever one can be taken
InitFair == MakeParser(Alphabet, MaxTokens)
FairSpec == InitFair /\ [][Next]_vars /\ WF_vars(Next)

-----------------------------------------------------------------------------
(* Building an operator table: any registrations, in any order *)

RegKinds == {"name", "+", "("}
RegTokens ==
  {<<k>> : k \in RegKinds} \cup {<<j, k>> : j, k \in RegKinds}
RegBps == {0, 3, 29}
RegNuds == {"None", "NullError", "NullPrefixOp"}
RegLeds == {"None", "LeftBinaryOp"}

\* the ParserSpec object
TheSpec == [null_lookup |-> null_lookup, left_lookup |-> left_lookup]

Registered(spec) ==
  /\ nregs < MaxRegs
  /\ null_lookup' = spec.null_lookup
  /\ left_lookup' = spec.left_lookup
  /\ nregs' = nregs + 1
  /\ UNCHANGED parseVars

\* spec.Null(bp, nud, tokens)
RegNull ==
  \E bp \in RegBps, nud \in RegNuds, tokens \in RegTokens :
    Registered(Null(TheSpec, bp, nud, tokens))

\* spec.Left(bp, led, tokens)
RegLeft ==
  \E bp \in RegBps, led \in RegLeds, tokens \in RegTokens :
    Registered(Left(TheSpec, bp, led, tokens))

\* spec.LeftRightAssoc(bp, led, tokens)
RegLeftRightAssoc ==
  \E bp \in RegBps, led \in RegLeds, tokens \in RegTokens :
    Registered(LeftRightAssoc(TheSpec, bp, led, tokens))

\* tdop.ParserSpec(): nothing registered, no parser yet
InitTable ==
  /\ null_lookup = EmptySpec.null_lookup
  /\ left_lookup = EmptySpec.left_lookup
  /\ nregs = 0
  /\ source = [alphabet |-> {}, budget |-> 0]
  /\ hist = <<>>
  /\ lexer = "open"
  /\ cursor = 0
  /\ token = NoToken
  /\ stack = <<>>
  /\ ret = NoNode
  /\ status = "idle"
  /\ err = NoError

NextTable == RegNull \/ RegLeft \/ RegLeftRightAssoc

SpecTable == InitTable /\ [][NextTable]_vars

-----------------------------------------------------------------------------
(* Reading a state: the text parsed and the tree built *)

Terminal == status \in {"done", "error"}

Atoms == {"name", "number"}

\* the tokens the parser has passed over (the lookahead is not one of them)
Consumed ==
  SubSeq(hist, 1, IF token = EOF_TOKEN THEN Len(hist) ELSE Len(hist) - 1)

ConsumedKinds == [i \in 1..Len(Consumed) |-> Consumed[i].type]

\* The parse has ended, and it is the parse of a text whose tokens are, in
\* order, of the kinds in pattern[1], pattern[2], ...: what the lexer gave is
\* a prefix of such a text, and the whole of it if the lexer reached the end.
ParsedText(pattern) ==
  /\ Terminal
  /\ Len(hist) <= Len(pattern)
  /\ \A i \in 1..Len(hist) : hist[i].type \in pattern[i]
  /\ lexer = "exhausted" => Len(hist) = Len(pattern)

\* the text of exactly these kinds
Text(kinds) == [i \in 1..Len(kinds) |-> {kinds[i]}]

\* the leaf of the i-th token, and the composite node of the i-th token
Leaf(i) == Node(hist[i])
Comp(i, children) == CompositeNode(hist[i], children)
CompAs(i, kind, children) == CompositeNode(Relabel(hist[i], kind), children)

\* nesting depth after the first n of the kinds k: brackets nest, and so does
\* the middle of a conditional, between its ? and its :
NestDelta(kind) ==
  IF kind \in {"(", "[", "?"} THEN 1 ELSE IF kind \in {")", "]", ":"} THEN -1 ELSE 0
RECURSIVE Depth(_, _)
Depth(k, n) == IF n = 0 THEN 0 ELSE Depth(k, n - 1) + NestDelta(k[n])

\* the commas of k outside every bracket
TopCommas(k) == Cardinality({i \in 1..Len(k) : k[i] = "," /\ Depth(k, i) = 0})

\* the place of the bracket closing the one at place i
MatchClose(k, i) ==
  LET closes == {j \in (i + 1)..Len(k) : Depth(k, j) = Depth(k, i - 1)}
  IN  IF closes = {} THEN 0 ELSE CHOOSE j \in closes : \A m \in closes : j <= m

\* every node of a tree
RECURSIVE Subtrees(_)
Subtrees(node) ==
  {node} \cup UNION {Subtrees(node.children[i]) : i \in 1..Len(node.children)}

\* the place in the text of the first token of a tree
FirstId(node) ==
  CHOOSE i \in {n.token.id : n \in Subtrees(node)} :
    \A j \in {n.token.id : n \in Subtrees(node)} : i <= j

-----------------------------------------------------------------------------
(* C1 *)

\* C1: when Parse returns a tree, the whole input has been consumed: the
\* current token is end-of-input (a token without an infix rule after a
\* complete expression makes Parse raise, no partial tree is returned).
C1_WholeInputParsed == status = "done" => token = EOF_TOKEN

-----------------------------------------------------------------------------
(* C2 *)

\* the operators the grammar registers with LeftRightAssoc
C2_RightAssoc == {"**"} \cup {AssignOps[i] : i \in 1..Len(AssignOps)}

\* C2: the tree the claim gives for `a op1 b op2 c`: by binding power, and
\* for equal binding powers by the associativity op1 was registered with
C2_Expected(op1, op2) ==
  LET i1 == left_lookup[op1]
      i2 == left_lookup[op2]
      leftNest == Comp(4, <<Comp(2, <<Leaf(1), Leaf(3)>>), Leaf(5)>>)
      rightNest == Comp(2, <<Leaf(1), Comp(4, <<Leaf(3), Leaf(5)>>)>>)
  IN  IF i1.lbp > i2.lbp THEN leftNest
      ELSE IF i1.lbp < i2.lbp THEN rightNest
      ELSE IF op1 \in C2_RightAssoc THEN rightNest
      ELSE leftNest

\* C2: for all atoms a, b, c and binary operators op1, op2 (both handled by
\* LeftBinaryOp, or both assignments), `a op1 b op2 c` parses to
\* (op2 (op1 a b) c) when op1 binds tighter, to (op1 a (op2 b c)) when it binds
\* looser, and at equal binding power nests left for Left operators and right
\* for LeftRightAssoc operators.
C2_PrecedenceAndAssociativity ==
  /\ ParsedText(<<Atoms, BinaryOps, Atoms, BinaryOps, Atoms>>)
       => /\ status = "done"
          /\ Len(hist) = 5
          /\ ret = C2_Expected(hist[2].type, hist[4].type)
  /\ ParsedText(<<{"name"}, {"="}, {"name"}, {"="}, Atoms>>)
       => /\ status = "done"
          /\ Len(hist) = 5
          /\ ret = C2_Expected("=", "=")
          /\ ret = Comp(2, <<Leaf(1), Comp(4, <<Leaf(3), Leaf(5)>>)>>)

C2_Witness ==
  /\ status = "done"
  /\ ConsumedKinds = <<"name", "**", "name", "**", "name">>
  /\ Repr(ret) = "(** x (** x x))"

-----------------------------------------------------------------------------
(* C3 *)

C3_CallThenIndexText == Text(<<"name", "(", "name", ",", "name", ")", "[", "number", "]">>)

\* C3 (as claimed): indexing the result of a call is accepted: `f(a, b)[0]`
\* parses to the element-access node over the call node and the index.
C3_CallThenIndexAccepted ==
  ParsedText(C3_CallThenIndexText)
    => /\ status = "done"
       /\ ret.token.type \in {"get", "element-access"}
       /\ Len(ret.children) = 2
       /\ ret.children[1].token.type = "call"

\* C3 (amended): indexing the result of a call is rejected: LeftIndex takes
\* only a name or a prior element access on its left, so `f(a, b)[0]` raises
\* "can't be indexed" as soon as `[` is consumed and no tree is returned; the
\* opposite chain is accepted, `f[0](a)` parses to (call (get f 0) a), and so
\* is an index of an index, `f[0][1]` parses to (get (get f 0) 1).
C3_CallResultNotIndexable ==
  /\ ParsedText(C3_CallThenIndexText)
       => /\ status = "error"
          /\ err = ParseError(ErrIndex, "call")
          /\ ret = NoNode
          /\ ConsumedKinds = <<"name", "(", "name", ",", "name", ")", "[">>
  /\ ParsedText(Text(<<"name", "[", "number", "]", "(", "name", ")">>))
       => /\ status = "done"
          /\ ret = CompAs(5, "call",
                     <<CompAs(2, "get", <<Leaf(1), Leaf(3)>>), Leaf(6)>>)
          /\ Repr(ret) = "(call (get x 1) x)"
  /\ ParsedText(Text(<<"name", "[", "number", "]", "[", "number", "]">>))
       => /\ status = "done"
          /\ ret = CompAs(5, "get",
                     <<CompAs(2, "get", <<Leaf(1), Leaf(3)>>), Leaf(6)>>)
          /\ Repr(ret) = "(get (get x 1) 1)"

C3_Witness ==
  /\ status = "error"
  /\ err = ParseError(ErrIndex, "call")
  /\ ConsumedKinds = <<"name", "(", "name", ",", "name", ")", "[">>
  /\ token.type = "number"

-----------------------------------------------------------------------------
(* C4 *)

\* the text consumed is one call, callee( ... ), and nothing else
C4_IsCall(k) ==
  /\ Len(k) >= 3
  /\ k[1] = "name"
  /\ k[2] = "("
  /\ MatchClose(k, 2) = Len(k)

\* the number of arguments written between the brackets of that call: none,
\* or one more than the commas that separate them
C4_ArgsWritten(k) ==
  IF Len(k) = 3 THEN 0 ELSE 1 + TopCommas(SubSeq(k, 3, Len(k) - 1))

\* C4: a call is accepted only when its arguments are separated by commas,
\* and its node then has the callee and exactly one child per comma-separated
\* argument: `f(a b)` is rejected, and `f((a, b))` has one argument.
C4_ArgumentsSeparatedByCommas ==
  /\ ~(status = "done" /\ ConsumedKinds = <<"name", "(", "name", "name", ")">>)
  /\ (status = "done" /\ C4_IsCall(ConsumedKinds))
       => /\ ret.token.type = "call"
          /\ Len(ret.children) = 1 + C4_ArgsWritten(ConsumedKinds)

-----------------------------------------------------------------------------
(* C5 *)

\* the kinds with an infix rule that may stand between two names in the
\* middle of a conditional
C5_MiddleOps == BinaryOps \cup {"=", ","}

\* C5: a conditional `c ? t : f` yields a node of exactly three children
\* [c, t, f]; the middle is parsed as if parenthesized, whatever the operator
\* in it (also assignment and comma, which bind looser than ?); a ? in the
\* false branch nests to the right; an operator looser than ? after the false
\* branch is left to the caller.
C5_Ternary ==
  /\ \A n \in Subtrees(ret) : n.token.type = "?" => Len(n.children) = 3
  /\ ParsedText(<<{"name"}, {"?"}, {"name"}, C5_MiddleOps, {"name"}, {":"}, {"name"}>>)
       => /\ status = "done"
          /\ ret = Comp(2, <<Leaf(1), Comp(4, <<Leaf(3), Leaf(5)>>), Leaf(7)>>)
  /\ ParsedText(Text(<<"name", "?", "name", ":", "name", "?", "name", ":", "name">>))
       => /\ status = "done"
          /\ ret = Comp(2, <<Leaf(1), Leaf(3),
                             Comp(6, <<Leaf(5), Leaf(7), Leaf(9)>>)>>)
          /\ Repr(ret) = "(? x x (? x x x))"
  /\ ParsedText(Text(<<"name", "?", "name", ":", "name", ",", "name">>))
       => /\ status = "done"
          /\ ret = Comp(6, <<Comp(2, <<Leaf(1), Leaf(3), Leaf(5)>>), Leaf(7)>>)
  /\ ParsedText(Text(<<"name", "?", "name", ":", "name", "=", "name">>))
       => /\ status = "error"
          /\ err = ParseError(ErrAssign, "?")

C5_Witness ==
  /\ status = "done"
  /\ ConsumedKinds = <<"name", "?", "name", ":", "name", "?", "name", ":", "name">>
  /\ Len(ret.children) = 3
  /\ ret.children[3].token.type = "?"

-----------------------------------------------------------------------------
(* C6 *)

C6_IncDecKinds == {"++", "--", "post++", "post--"}
C6_AssignKinds == {AssignOps[i] : i \in 1..Len(AssignOps)}

\* C6: increment, decrement and assignment take only an lvalue-shaped operand
\* (a name or an element access); otherwise the parse fails with "Can't assign
\* to" and no tree is returned (`5++`, `++5`, `1 = 2`, `a + b = c`). On an
\* lvalue, postfix yields a 1-child node relabelled post++ / post--, prefix a
\* 1-child node of kind ++ / --.
C6_LvalueValidation ==
  /\ \A n \in Subtrees(ret) :
       /\ n.token.type \in C6_IncDecKinds \cup C6_AssignKinds
            => n.composite /\ n.children[1].token.type \in {"name", "get"}
       /\ n.token.type \in C6_IncDecKinds => Len(n.children) = 1
  /\ ( \/ ParsedText(<<{"number"}, {"++", "--"}>>)
       \/ ParsedText(<<{"++", "--"}, {"number"}>>)
       \/ ParsedText(<<{"number"}, C6_AssignKinds, Atoms>>)
       \/ ParsedText(<<Atoms, BinaryOps, Atoms, C6_AssignKinds, Atoms>>) )
       => /\ status = "error"
          /\ err.msg = ErrAssign
          /\ ret = NoNode
  /\ ParsedText(<<{"name"}, {"++", "--"}>>)
       => /\ status = "done"
          /\ ret = CompAs(2, "post" \o hist[2].type, <<Leaf(1)>>)
          /\ ret.token.type \in {"post++", "post--"}
  /\ ParsedText(<<{"++", "--"}, {"name"}>>)
       => /\ status = "done"
          /\ ret = Comp(1, <<Leaf(2)>>)

C6_Witness ==
  /\ status = "error"
  /\ err = ParseError(ErrAssign, "number")
  /\ ConsumedKinds = <<"number", "++">>

-----------------------------------------------------------------------------
(* C7 *)

\* the commas a comma node takes over from its first operand: when the text
\* starts with a bracketed comma list that is the whole first operand, the
\* list's own commas, and so on inside it
RECURSIVE C7_Merged(_)
C7_Merged(k) ==
  IF k # <<>> /\ k[1] = "("
    THEN LET j == MatchClose(k, 1)
             inner == SubSeq(k, 2, j - 1)
         IN  IF j > 0 /\ (j = Len(k) \/ k[j + 1] = ",")
               THEN TopCommas(inner) + C7_Merged(inner)
               ELSE 0
    ELSE 0

\* the children of a node are in the order of the text
C7_InSourceOrder(node) ==
  \A i \in 1..(Len(node.children) - 1) :
    FirstId(node.children[i]) < FirstId(node.children[i + 1])

\* C7 (as claimed): n operands separated by commas at the same nesting level
\* parse to one comma node with exactly n children, in source order.
C7_ExactlyOneChildPerOperand ==
  (status = "done" /\ TopCommas(ConsumedKinds) >= 1)
    => /\ ret.token.type = ","
       /\ Len(ret.children) = TopCommas(ConsumedKinds) + 1
       /\ C7_InSourceOrder(ret)

\* C7 (amended): n operands separated by commas at the same nesting level
\* parse to one comma node, in source order, with one child per operand,
\* except that a first operand that is itself a (bracketed) comma list is
\* merged into the node, its children taking the place of the first operand:
\* `(a, b), c` gives (, a b c). The handler appends to the comma node on its
\* left and makes a new 2-child node otherwise.
C7_CommaFlattening ==
  /\ (status = "done" /\ TopCommas(ConsumedKinds) >= 1)
       => /\ ret.token.type = ","
          /\ Len(ret.children) =
               TopCommas(ConsumedKinds) + 1 + C7_Merged(ConsumedKinds)
          /\ C7_InSourceOrder(ret)
  /\ (status = "done" /\ TopCommas(ConsumedKinds) >= 1 /\ hist[1].type # "(")
       => Len(ret.children) = TopCommas(ConsumedKinds) + 1
  /\ ParsedText(<<Atoms, {","}, Atoms, {","}, Atoms>>)
       => /\ status = "done"
          /\ ret = Comp(2, <<Leaf(1), Leaf(3), Leaf(5)>>)

C7_Witness ==
  /\ status = "done"
  /\ ConsumedKinds = <<"(", "name", ",", "name", ")", ",", "name">>
  /\ Repr(ret) = "(, x x x)"

-----------------------------------------------------------------------------
(* C8 *)

\* a step of the parse advances the cursor where the code must: the first
\* segment of a ParseUntil call that does not raise, and a turn of its loop
\* that goes on, each pass over exactly one token that is not end-of-input;
\* the argument a turn of the call-argument loop has parsed starts after every
\* argument before it; and once the current token is end-of-input the lexer is
\* not asked again
C8_Progress ==
  /\ (Running("ParseUntil", "entry") /\ status' = "running")
       => token # EOF_TOKEN /\ cursor' = cursor + 1
  /\ (Running("ParseUntil", "loop") /\ Len(stack') > Len(stack))
       => token # EOF_TOKEN /\ cursor' = cursor + 1
  /\ Running("LeftFuncCall", "comma_list")
       => \A i \in 1..Len(Top.children) :
            FirstId(Top.children[i]) < FirstId(ret)
  /\ token = EOF_TOKEN => cursor' = cursor

\* C8: for every finite token sequence, well-formed or not, Parse eventually
\* returns a tree or raises ParseError; every ParseUntil call that does not
\* raise consumes a token, no loop turns without advancing the cursor, and
\* end-of-input is never consumed.
C8_Termination == <>Terminal /\ [][C8_Progress]_vars

C8_Witness ==
  /\ status = "error"
  /\ err = ParseError(ErrEndOfInput, "")
  /\ ConsumedKinds = <<"name", "(", "name", ",", "name">>
  /\ lexer = "exhausted"

-----------------------------------------------------------------------------
(* C9 *)

\* C9: after any registrations, the kinds with a prefix rule are the kinds
\* with an infix rule, and for such a kind neither lookup raises.
C9_TablesAgree ==
  /\ DOMAIN null_lookup = DOMAIN left_lookup
  /\ \A k \in DOMAIN null_lookup \cup DOMAIN left_lookup :
       /\ LookupNull(null_lookup, k).error = NoError
       /\ LookupLeft(left_lookup, k).error = NoError

C9_Witness ==
  /\ nregs = 2
  /\ \E j, k \in DOMAIN null_lookup :
       /\ null_lookup[j].nud = "NullPrefixOp" /\ left_lookup[j].led = "LeftError"
       /\ null_lookup[k].nud = "NullError" /\ left_lookup[k].led = "LeftBinaryOp"

-----------------------------------------------------------------------------
(* C10 *)

\* C10 (as claimed): for a kind with no rule registered, the error of the
\* prefix-position lookup is distinct from the error of the infix-position
\* lookup.
C10_LookupErrorsDistinct ==
  \A k \in RegKinds :
    (k \notin DOMAIN null_lookup /\ k \notin DOMAIN left_lookup)
      => LookupNull(null_lookup, k).error # LookupLeft(left_lookup, k).error

\* C10 (amended): for a kind with no rule registered, both lookups fail, and
\* with the same ParseError, "Unexpected token <kind>": the error of a lookup
\* does not tell the position.
C10_LookupErrorsSame ==
  \A k \in RegKinds :
    (k \notin DOMAIN null_lookup /\ k \notin DOMAIN left_lookup)
      => /\ LookupNull(null_lookup, k).error = ParseError(ErrUnexpectedToken, k)
         /\ LookupLeft(left_lookup, k).error = LookupNull(null_lookup, k).error

C10_Witness ==
  /\ nregs > 0
  /\ \E j, k \in RegKinds :
       /\ j \in DOMAIN null_lookup
       /\ k \notin DOMAIN null_lookup
       /\ LookupLeft(left_lookup, k).error = ParseError(ErrUnexpectedToken, k)

====
